---- MODULE Spec2Model ----
(***************************************************************************)
(* FlowForge browser client (src/src/web/static/js/api.js, auth.js):       *)
(* the APIClient session, the WorkflowBuilder draft and the App list       *)
(* caches, as one state machine.  Every remote call is an asynchronous     *)
(* task: the handler runs up to its await, the task waits in `net`, and a  *)
(* response action resumes it.                                             *)
(***************************************************************************)
EXTENDS Integers, Sequences, FiniteSets, TLC

\* ------------------------------------------------------------------ bounds
\* Handlers are started only while fewer than MaxTasks tasks are suspended at
\* an await; a resumed task always runs on, whatever it starts.
MaxTasks == 2
\* Steps a draft may hold.
MaxSteps == 2
\* Last value of the millisecond clock read by Date.now().
MaxClock == 2

VARIABLES
    lsToken,          \* localStorage entry 'auth_token' (Null when absent)
    lsUser,           \* localStorage entry 'user' (Null when absent)
    token,            \* APIClient.token
    user,             \* APIClient.user
    crashed,          \* the APIClient constructor threw: window.api was never assigned
    currentWorkflow,  \* WorkflowBuilder.currentWorkflow
    currentSteps,     \* WorkflowBuilder.currentSteps
    now,              \* Date.now()
    workflows,        \* App.workflows
    credentials,      \* App.credentials
    executions,       \* App.executions
    templates,        \* App.templates
    net,              \* suspended async tasks, in the order they were started
    timers,           \* pending setTimeout(() => loadExecutions(), 1000) callbacks
    availableServices,    \* WorkflowBuilder.availableServices
    availableConnectors,  \* WorkflowBuilder.availableConnectors
    builderInit,      \* WorkflowBuilder.init(): "none" before App.init() ran,
                      \* "awaiting" at its Promise.all, "done" once its
                      \* event listeners are attached
    screen,           \* which container is displayed: "auth" (#auth-container),
                      \* "app" (#app-container), "none" before Auth.init() ran
    last              \* observation of the step just taken (handler, requests sent, toasts)

storageVars == <<lsToken, lsUser>>
sessionVars == <<token, user, crashed>>
editorVars == <<currentWorkflow, currentSteps>>
cacheVars == <<workflows, credentials, executions, templates>>
catalogVars == <<availableServices, availableConnectors, builderInit>>
vars == <<lsToken, lsUser, token, user, crashed, currentWorkflow, currentSteps,
          now, workflows, credentials, executions, templates, net,
          timers, availableServices, availableConnectors, builderInit, screen,
          last>>

\* ------------------------------------------------------------ JS values
Null == [t |-> "null"]
Undefined == [t |-> "undefined"]
Str(s) == [t |-> "string", v |-> s]

\* !!x
Truthy(x) == /\ x.t \notin {"null", "undefined"}
             /\ (x.t = "string" => x.v # "")

\* x || []
OrEmpty(x) == IF x.t = "undefined" THEN <<>> ELSE x.v
List(s) == [t |-> "array", v |-> s]

UserA == [t |-> "object", id |-> 1, name |-> "A"]
UserB == [t |-> "object", id |-> 2, name |-> "B"]
ConfigEmpty == [t |-> "object", keys |-> 0]
ConfigOne == [t |-> "object", keys |-> 1]

\* The JSON texts of the model and the value each one denotes.
JSONTable == { <<"null", Null>>,
               <<"{\"id\":1,\"name\":\"A\"}", UserA>>,
               <<"{\"id\":2,\"name\":\"B\"}", UserB>>,
               <<"{}", ConfigEmpty>>,
               <<"{\"a\":1}", ConfigOne>> }

\* JSON.parse(text): the value, or a SyntaxError
JSONParse(text) ==
    IF \E p \in JSONTable : p[1] = text
    THEN [ok |-> TRUE, value |-> (CHOOSE p \in JSONTable : p[1] = text)[2]]
    ELSE [ok |-> FALSE, value |-> Undefined]

\* JSON.stringify(v): undefined for undefined, the text otherwise
JSONStringify(v) ==
    IF v.t = "undefined" THEN Undefined
    ELSE Str((CHOOSE p \in JSONTable : p[2] = v)[1])

\* String(v), as localStorage.setItem applies it to the value
ToStr(v) ==
    CASE v.t = "string" -> v
      [] v.t = "undefined" -> Str("undefined")
      [] v.t = "null" -> Str("null")

\* ------------------------------------------------------------ observation
NoTask == [op |-> "none"]
NoArg == [t |-> "none"]
Toast(message, type) == [message |-> message, type |-> type]
Last(op, phase, arg, task, sent, toast) ==
    [op |-> op, phase |-> phase, arg |-> arg, task |-> task, sent |-> sent,
     toast |-> toast]

\* --------------------------------------------------- APIClient.request
NoHeader == [t |-> "absent"]
NoId == "-"

\* The request as issued: method, endpoint and the X-API-Key header.
request_NoHeader(method, path, id) ==
    [method |-> method, path |-> path, id |-> id, key |-> NoHeader]

request(method, path, id) ==
    [method |-> method, path |-> path, id |-> id,
     key |-> IF Truthy(token) THEN token ELSE NoHeader]

\* Failed responses: a JSON error envelope, or a body that is not JSON.
FailureResponses ==
    { [json |-> TRUE, detail |-> "denied", message |-> "", statusText |-> "Forbidden"],
      [json |-> FALSE, detail |-> "", message |-> "", statusText |-> "Server Error"] }

\* The message of the Error that request() throws for a failed response.
ErrorMessage(resp) ==
    LET error == IF resp.json THEN [detail |-> resp.detail, message |-> resp.message]
                 ELSE [detail |-> resp.statusText, message |-> ""]
    IN  IF error.detail # "" THEN error.detail
        ELSE IF error.message # "" THEN error.message
        ELSE "Request failed"

Remove(s, i) == SubSeq(s, 1, i - 1) \o SubSeq(s, i + 1, Len(s))

\* ------------------------------------------------------------ APIClient
\* constructor: what the two fields are read as from localStorage
CtorUserText == IF Truthy(lsUser) THEN lsUser.v ELSE "null"
CtorThrows == ~JSONParse(CtorUserText).ok
CtorToken == lsToken
CtorUser == JSONParse(CtorUserText).value

isAuthenticated == Truthy(token)

\* A page load: window.api = new APIClient().  Every in-memory object starts
\* afresh and the tasks of the previous page are gone; localStorage stays.
\* (When the constructor throws the script stops there: no handler exists.)
Constructor ==
    /\ IF CtorThrows
       THEN /\ crashed' = TRUE
            /\ token' = Null
            /\ user' = Null
       ELSE /\ crashed' = FALSE
            /\ token' = CtorToken
            /\ user' = CtorUser
    /\ currentWorkflow' = Null
    /\ currentSteps' = <<>>
    /\ workflows' = <<>>
    /\ credentials' = <<>>
    /\ executions' = <<>>
    /\ templates' = <<>>
    /\ net' = <<>>
    /\ timers' = 0
    /\ availableServices' = <<>>
    /\ availableConnectors' = <<>>
    /\ builderInit' = "none"
    /\ screen' = "none"
    /\ last' = Last("constructor", "call", NoArg, NoTask, <<>>, <<>>)
    /\ UNCHANGED <<storageVars, now>>

\* setAuth(token, user)
setAuth_NoUserEntry(tok, usr) ==
    /\ token' = tok
    /\ user' = usr
    /\ lsToken' = ToStr(tok)
    /\ lsUser' = lsUser

setAuth(tok, usr) ==
    /\ token' = tok
    /\ user' = usr
    /\ lsToken' = ToStr(tok)
    /\ lsUser' = ToStr(JSONStringify(usr))

AuthPaths == {"/auth/login", "/auth/signup"}
AuthOp(path) == IF path = "/auth/login" THEN "login" ELSE "signup"

\* login(email, password) and signup(name, email, organization, password), to the await
AuthCall(path) ==
    /\ ~crashed
    /\ Len(net) < MaxTasks
    /\ LET req == request("POST", path, NoId)
       IN  /\ net' = Append(net, [op |-> AuthOp(path), req |-> req])
           /\ last' = Last(AuthOp(path), "call", NoArg, NoTask, <<req>>, <<>>)
    /\ UNCHANGED <<storageVars, sessionVars, editorVars, now, cacheVars, timers>>
    /\ UNCHANGED <<catalogVars, screen>>

login == AuthCall("/auth/login")
signup == AuthCall("/auth/signup")

ApiKeys == {Undefined, Str("tok1"), Str("tok2")}
AuthUsers == {Undefined, UserA, UserB}
AuthResponses == [api_key : ApiKeys, user : AuthUsers]

\* login / signup resumed with the response body
AuthResolve(i, data) ==
    /\ net[i].op \in {"login", "signup"}
    /\ IF Truthy(data.api_key)
       THEN setAuth(data.api_key, data.user)
       ELSE UNCHANGED <<storageVars, token, user>>
    /\ net' = Remove(net, i)
    /\ last' = Last(net[i].op, "resolve", data, net[i], <<>>, <<>>)
    /\ UNCHANGED <<crashed, editorVars, now, cacheVars, timers>>
    /\ UNCHANGED <<catalogVars, screen>>

AuthReject_ClearsSession(i, resp) ==
    /\ net[i].op \in {"login", "signup"}
    /\ net' = Remove(net, i)
    /\ token' = Null
    /\ user' = Null
    /\ lsToken' = Null
    /\ lsUser' = Null
    /\ last' = Last(net[i].op, "reject", Str(ErrorMessage(resp)), net[i], <<>>, <<>>)
    /\ UNCHANGED <<crashed, editorVars, now, cacheVars, timers>>
    /\ UNCHANGED <<catalogVars, screen>>

\* login / signup resumed with the error request() threw: it propagates
AuthReject(i, resp) ==
    /\ net[i].op \in {"login", "signup"}
    /\ net' = Remove(net, i)
    /\ last' = Last(net[i].op, "reject", Str(ErrorMessage(resp)), net[i], <<>>, <<>>)
    /\ UNCHANGED <<storageVars, sessionVars, editorVars, now, cacheVars, timers>>
    /\ UNCHANGED <<catalogVars, screen>>

\* logout()
logout_KeepsUserEntry ==
    /\ ~crashed
    /\ token' = Null
    /\ user' = Null
    /\ lsToken' = Null
    /\ lsUser' = lsUser
    /\ last' = Last("logout", "call", NoArg, NoTask, <<>>, <<>>)
    /\ UNCHANGED <<crashed, editorVars, now, cacheVars, net, timers>>
    /\ UNCHANGED <<catalogVars, screen>>

logout ==
    /\ ~crashed
    /\ token' = Null
    /\ user' = Null
    /\ lsToken' = Null
    /\ lsUser' = Null
    /\ last' = Last("logout", "call", NoArg, NoTask, <<>>, <<>>)
    /\ UNCHANGED <<crashed, editorVars, now, cacheVars, net, timers>>
    /\ UNCHANGED <<catalogVars, screen>>

\* ------------------------------------------------------------ App loads
\* Snapshots the remote store may answer a list request with.  A body may
\* lack the list field (Undefined): the handlers read it as `field || []`.
WorkflowIds == {"A", "B"}
Workflow(id, status) == [t |-> "object", id |-> id, status |-> status]
WorkflowLists == { Undefined,
                   List(<<Workflow("A", "active")>>),
                   List(<<Workflow("A", "paused"), Workflow("B", "active")>>) }
Run(id, status) == [t |-> "object", id |-> id, status |-> status]
RunLists == { Undefined, List(<<Run("r2", "failed"), Run("r1", "success")>>) }
CredentialIds == {"c1", "c2"}
Credential(id) == [t |-> "object", id |-> id]
CredentialLists == { Undefined, List(<<Credential("c1"), Credential("c2")>>) }
Template(id) == [t |-> "object", id |-> id]
TemplateLists == { Undefined, List(<<Template("t1")>>) }

LoadOps == {"loadWorkflows", "loadCredentials", "loadExecutions", "loadTemplates"}

\* The cache a load handler assigns, and the request it awaits.
Cache(op) ==
    CASE op = "loadWorkflows" -> workflows
      [] op = "loadCredentials" -> credentials
      [] op = "loadExecutions" -> executions
      [] op = "loadTemplates" -> templates

LoadPath(op) ==
    CASE op = "loadWorkflows" -> "/workflows"
      [] op = "loadCredentials" -> "/credentials"
      [] op = "loadExecutions" -> "/runs?limit=100"
      [] op = "loadTemplates" -> "/templates"

LoadBodies(op) ==
    CASE op = "loadWorkflows" -> WorkflowLists
      [] op = "loadCredentials" -> CredentialLists
      [] op = "loadExecutions" -> RunLists
      [] op = "loadTemplates" -> TemplateLists

LoadFailedToast(op) ==
    CASE op = "loadWorkflows" -> "Failed to load workflows"
      [] op = "loadCredentials" -> "Failed to load credentials"
      [] op = "loadExecutions" -> "Failed to load executions"
      [] op = "loadTemplates" -> "Failed to load templates"

\* The suspended task of loadWorkflows(), loadCredentials(), loadExecutions()
\* or loadTemplates(): `before` records the cache as it was when the load
\* was issued, `overtaken` that a load of the same list issued later has
\* already been answered.
LoadTask(op) ==
    [op |-> op, req |-> request("GET", LoadPath(op), NoId), before |-> Cache(op),
     overtaken |-> FALSE]

\* The tasks once task i has been answered: the loads of the same list that
\* were issued before it are overtaken.
Overtake(tasks, i) ==
    [j \in 1..Len(tasks) |->
        IF j < i /\ tasks[j].op = tasks[i].op
        THEN [tasks[j] EXCEPT !.overtaken = TRUE]
        ELSE tasks[j]]

\* this.<cache> = data.<field> || []
AssignCache(op, value) ==
    /\ workflows' = IF op = "loadWorkflows" THEN value ELSE workflows
    /\ credentials' = IF op = "loadCredentials" THEN value ELSE credentials
    /\ executions' = IF op = "loadExecutions" THEN value ELSE executions
    /\ templates' = IF op = "loadTemplates" THEN value ELSE templates

\* What a load commits when it is resumed with the response body: there is
\* no check that the response is still wanted.
LoadCommit_DropsOvertaken(task, body) ==
    IF task.overtaken THEN UNCHANGED cacheVars
    ELSE AssignCache(task.op, OrEmpty(body))

LoadCommit(task, body) == AssignCache(task.op, OrEmpty(body))

\* a load resumed with the response body
LoadResolve(i, body) ==
    /\ net[i].op \in LoadOps
    /\ body \in LoadBodies(net[i].op)
    /\ LoadCommit(net[i], body)
    /\ net' = Remove(Overtake(net, i), i)
    /\ last' = Last(net[i].op, "resolve", body, net[i], <<>>, <<>>)
    /\ UNCHANGED <<storageVars, sessionVars, editorVars, now, timers>>
    /\ UNCHANGED <<catalogVars, screen>>

\* the catch block of a load
LoadCatch_ClearsCache(op) == AssignCache(op, <<>>)

LoadCatch(op) == UNCHANGED cacheVars

\* a load resumed with the error request() threw
LoadReject(i, resp) ==
    /\ net[i].op \in LoadOps
    /\ LoadCatch(net[i].op)
    /\ net' = Remove(net, i)
    /\ last' = Last(net[i].op, "reject", Str(ErrorMessage(resp)), net[i], <<>>,
                    <<Toast(LoadFailedToast(net[i].op), "error")>>)
    /\ UNCHANGED <<storageVars, sessionVars, editorVars, now, timers>>
    /\ UNCHANGED <<catalogVars, screen>>

\* ------------------------------------------------------------ App.loadDashboard
DashboardParts == {"workflows", "runs"}
Waiting == [st |-> "wait"]
Settled == [st |-> "done"]
Fulfilled(body) == [st |-> "ok", body |-> body]

\* The suspended task of loadDashboard(): Promise.all over getWorkflows() and
\* getRuns(null, 10).  `rejected` is set once the join has thrown into the
\* catch block; the other request is then still in flight and its outcome is
\* dropped.
DashboardTask ==
    [op |-> "loadDashboard",
     req |-> request("GET", "/workflows", NoId),
     req2 |-> request("GET", "/runs?limit=10", NoId),
     workflows |-> Waiting, runs |-> Waiting, rejected |-> FALSE]

DashboardBodies(part) == IF part = "workflows" THEN WorkflowLists ELSE RunLists
OtherPart(part) == IF part = "workflows" THEN "runs" ELSE "workflows"
PartOf(task, part) == IF part = "workflows" THEN task.workflows ELSE task.runs
WithPart(task, part, value) ==
    IF part = "workflows" THEN [task EXCEPT !.workflows = value]
    ELSE [task EXCEPT !.runs = value]

\* Math.round(num / den * 100) for 0 <= num <= den, den > 0: the nearest
\* integer, a half rounding up.  (With den <= 10 the only halves are the
\* eighths, which doubles hold exactly, so the double result is this one.)
RoundPercent_Truncates(num, den) == (100 * num) \div den

RoundPercent(num, den) == (200 * num + den) \div (2 * den)

\* const successfulRuns = this.executions.filter(e => e.status === 'success').length
\* const successRate = this.executions.length > 0 ? Math.round(...) : 0
successRate(runs) ==
    LET successfulRuns == Len(SelectSeq(runs, LAMBDA e : e.status = "success"))
    IN  IF Len(runs) > 0 THEN RoundPercent(successfulRuns, Len(runs)) ELSE 0

\* The numbers loadDashboard writes into the four stat elements.
DashboardStats(ws, runs) ==
    [totalWorkflows |-> Len(ws),
     activeWorkflows |-> Len(SelectSeq(ws, LAMBDA w : w.status = "active")),
     totalExecutions |-> Len(runs),
     successRate |-> successRate(runs)]

\* What loadDashboard commits once both requests are fulfilled.
DashboardCommit(workflowsBody, runsBody) ==
    /\ workflows' = OrEmpty(workflowsBody)
    /\ executions' = OrEmpty(runsBody)
    /\ UNCHANGED <<credentials, templates>>

\* one request of loadDashboard fulfilled with its response body
DashboardResolve(i, part, body) ==
    /\ net[i].op = "loadDashboard"
    /\ PartOf(net[i], part) = Waiting
    /\ LET other == PartOf(net[i], OtherPart(part))
           workflowsData == IF part = "workflows" THEN body ELSE other.body
           runsData == IF part = "runs" THEN body ELSE other.body
       IN  IF net[i].rejected
           THEN \* the join was rejected before: nothing runs
                /\ net' = Remove(net, i)
                /\ UNCHANGED cacheVars
                /\ last' = Last("loadDashboard", "dropped", NoArg, NoTask, <<>>, <<>>)
           ELSE IF other = Waiting
           THEN /\ net' = [net EXCEPT ![i] = WithPart(net[i], part, Fulfilled(body))]
                /\ UNCHANGED cacheVars
                /\ last' = Last("loadDashboard", "pending", NoArg, NoTask, <<>>, <<>>)
           ELSE /\ net' = Remove(net, i)
                /\ DashboardCommit(workflowsData, runsData)
                /\ last' = Last("loadDashboard", "resolve",
                                [workflows |-> workflowsData,
                                 runs |-> runsData,
                                 stats |-> DashboardStats(OrEmpty(workflowsData),
                                                          OrEmpty(runsData))],
                                NoTask, <<>>, <<>>)
    /\ UNCHANGED <<storageVars, sessionVars, editorVars, now, timers>>
    /\ UNCHANGED <<catalogVars, screen>>

\* the catch block of loadDashboard
DashboardCatch_ClearsCaches ==
    /\ workflows' = <<>>
    /\ executions' = <<>>
    /\ UNCHANGED <<credentials, templates>>

DashboardCatch == UNCHANGED cacheVars

\* one request of loadDashboard failed: Promise.all rejects at the first failure
DashboardReject(i, part, resp) ==
    /\ net[i].op = "loadDashboard"
    /\ PartOf(net[i], part) = Waiting
    /\ LET other == PartOf(net[i], OtherPart(part))
       IN  /\ net' = IF other = Waiting
                     THEN [net EXCEPT ![i] =
                              [WithPart(net[i], part, Settled) EXCEPT !.rejected = TRUE]]
                     ELSE Remove(net, i)
           /\ IF net[i].rejected
              THEN /\ UNCHANGED cacheVars
                   /\ last' = Last("loadDashboard", "dropped", NoArg, NoTask, <<>>, <<>>)
              ELSE /\ DashboardCatch
                   /\ last' = Last("loadDashboard", "reject", Str(ErrorMessage(resp)),
                                   net[i], <<>>,
                                   <<Toast("Failed to load dashboard data", "error")>>)
    /\ UNCHANGED <<storageVars, sessionVars, editorVars, now, timers>>
    /\ UNCHANGED <<catalogVars, screen>>

\* ------------------------------------------------------------ App.showView
ViewNames == {"dashboard", "workflows", "credentials", "executions", "templates",
              "builder"}

\* The tasks showView(viewName) starts: the switch over the view's loader.
ViewLoads(viewName) ==
    CASE viewName = "dashboard" -> <<DashboardTask>>
      [] viewName = "workflows" -> <<LoadTask("loadWorkflows")>>
      [] viewName = "credentials" -> <<LoadTask("loadCredentials")>>
      [] viewName = "executions" -> <<LoadTask("loadExecutions")>>
      [] viewName = "templates" -> <<LoadTask("loadTemplates")>>
      [] OTHER -> <<>>

\* The requests a sequence of tasks has issued.
RECURSIVE Requests(_)
Requests(tasks) ==
    IF tasks = <<>> THEN <<>>
    ELSE (IF Head(tasks).op \in {"loadDashboard", "init"}
          THEN <<Head(tasks).req, Head(tasks).req2>>
          ELSE <<Head(tasks).req>>) \o Requests(Tail(tasks))

\* showView(viewName)
showView(viewName) ==
    /\ ~crashed
    /\ Len(net) < MaxTasks
    /\ net' = net \o ViewLoads(viewName)
    /\ last' = Last("showView", "call", [viewName |-> viewName], NoTask,
                    Requests(ViewLoads(viewName)), <<>>)
    /\ UNCHANGED <<storageVars, sessionVars, editorVars, now, cacheVars, timers>>
    /\ UNCHANGED <<catalogVars, screen>>

\* ------------------------------------------------------------ App.runWorkflow
\* runWorkflow(id), to the await.  (Tasks and pending timers together are
\* kept below MaxTasks.)
runWorkflow(id) ==
    /\ ~crashed
    /\ Len(net) + timers < MaxTasks
    /\ LET req == request("POST", "/workflows/:id/execute", id)
       IN  /\ net' = Append(net, [op |-> "runWorkflow", id |-> id, req |-> req])
           /\ last' = Last("runWorkflow", "call", [id |-> id], NoTask, <<req>>, <<>>)
    /\ UNCHANGED <<storageVars, sessionVars, editorVars, now, cacheVars, timers>>
    /\ UNCHANGED <<catalogVars, screen>>

\* runWorkflow resumed with the (ignored) response body:
\* setTimeout(() => this.loadExecutions(), 1000)
RunResolve(i) ==
    /\ net[i].op = "runWorkflow"
    /\ net' = Remove(net, i)
    /\ timers' = timers + 1
    /\ last' = Last("runWorkflow", "resolve", [id |-> net[i].id], NoTask, <<>>,
                    <<Toast("Workflow execution started", "success")>>)
    /\ UNCHANGED <<storageVars, sessionVars, editorVars, now, cacheVars>>
    /\ UNCHANGED <<catalogVars, screen>>

\* runWorkflow resumed with the error request() threw
RunReject_SchedulesRefresh(i, resp) ==
    /\ net[i].op = "runWorkflow"
    /\ net' = Remove(net, i)
    /\ timers' = timers + 1
    /\ last' = Last("runWorkflow", "reject", [id |-> net[i].id], NoTask, <<>>,
                    <<Toast(<<"Failed to execute workflow: ", ErrorMessage(resp)>>, "error")>>)
    /\ UNCHANGED <<storageVars, sessionVars, editorVars, now, cacheVars>>
    /\ UNCHANGED <<catalogVars, screen>>

RunReject(i, resp) ==
    /\ net[i].op = "runWorkflow"
    /\ net' = Remove(net, i)
    /\ last' = Last("runWorkflow", "reject", [id |-> net[i].id], NoTask, <<>>,
                    <<Toast(<<"Failed to execute workflow: ", ErrorMessage(resp)>>, "error")>>)
    /\ UNCHANGED <<storageVars, sessionVars, editorVars, now, cacheVars, timers>>
    /\ UNCHANGED <<catalogVars, screen>>

\* A pending timer fires: () => this.loadExecutions()
TimerFires ==
    /\ timers > 0
    /\ timers' = timers - 1
    /\ net' = Append(net, LoadTask("loadExecutions"))
    /\ last' = Last("timer", "call", NoArg, NoTask,
                    Requests(<<LoadTask("loadExecutions")>>), <<>>)
    /\ UNCHANGED <<storageVars, sessionVars, editorVars, now, cacheVars>>
    /\ UNCHANGED <<catalogVars, screen>>

\* ------------------------------------------------------------ App delete actions
DeleteOps == {"deleteWorkflow", "deleteCredential"}
DeletePath(op) == IF op = "deleteWorkflow" THEN "/workflows/:id" ELSE "/credentials/:id"

\* deleteWorkflow(id) and deleteCredential(id), to the await; `confirmed` is
\* the answer to confirm(...)
DeleteCall_NoConfirm(op, id, confirmed) ==
    /\ ~crashed
    /\ Len(net) < MaxTasks
    /\ LET req == request("DELETE", DeletePath(op), id)
       IN  /\ net' = Append(net, [op |-> op, id |-> id, req |-> req])
           /\ last' = Last(op, "call", [id |-> id, confirmed |-> confirmed], NoTask,
                           <<req>>, <<>>)
    /\ UNCHANGED <<storageVars, sessionVars, editorVars, now, cacheVars, timers>>
    /\ UNCHANGED <<catalogVars, screen>>

DeleteCall(op, id, confirmed) ==
    /\ ~crashed
    /\ LET arg == [id |-> id, confirmed |-> confirmed]
           req == request("DELETE", DeletePath(op), id)
       IN  IF ~confirmed
           THEN /\ net' = net
                /\ last' = Last(op, "call", arg, NoTask, <<>>, <<>>)
           ELSE /\ Len(net) < MaxTasks
                /\ net' = Append(net, [op |-> op, id |-> id, req |-> req])
                /\ last' = Last(op, "call", arg, NoTask, <<req>>, <<>>)
    /\ UNCHANGED <<storageVars, sessionVars, editorVars, now, cacheVars, timers>>
    /\ UNCHANGED <<catalogVars, screen>>

deleteWorkflow(id, confirmed) == DeleteCall("deleteWorkflow", id, confirmed)
deleteCredential(id, confirmed) == DeleteCall("deleteCredential", id, confirmed)

\* What a delete handler starts after the delete call succeeded:
\* deleteWorkflow: this.loadWorkflows(); this.loadDashboard()
\* deleteCredential: this.loadCredentials()
AfterDelete(op) ==
    IF op = "deleteWorkflow" THEN <<LoadTask("loadWorkflows"), DashboardTask>>
    ELSE <<LoadTask("loadCredentials")>>

DeletedToast(op) ==
    IF op = "deleteWorkflow" THEN Toast("Workflow deleted successfully", "success")
    ELSE Toast("Credential deleted successfully", "success")

DeleteFailedToast(op, resp) ==
    Toast(<<IF op = "deleteWorkflow" THEN "Failed to delete workflow: "
            ELSE "Failed to delete credential: ", ErrorMessage(resp)>>, "error")

\* a delete handler resumed with the (ignored) response body
DeleteResolve(i) ==
    /\ net[i].op \in DeleteOps
    /\ net' = Remove(net, i) \o AfterDelete(net[i].op)
    /\ last' = Last(net[i].op, "resolve", [id |-> net[i].id], NoTask,
                    Requests(AfterDelete(net[i].op)), <<DeletedToast(net[i].op)>>)
    /\ UNCHANGED <<storageVars, sessionVars, editorVars, now, cacheVars, timers>>
    /\ UNCHANGED <<catalogVars, screen>>

\* a delete handler resumed with the error request() threw
DeleteReject(i, resp) ==
    /\ net[i].op \in DeleteOps
    /\ net' = Remove(net, i)
    /\ last' = Last(net[i].op, "reject", [id |-> net[i].id], NoTask, <<>>,
                    <<DeleteFailedToast(net[i].op, resp)>>)
    /\ UNCHANGED <<storageVars, sessionVars, editorVars, now, cacheVars, timers>>
    /\ UNCHANGED <<catalogVars, screen>>

\* ------------------------------------------------------------ WorkflowBuilder
Services == {"slack"}
Actions == {"send"}
ConfigTexts == {"{}", "", "{oops"}
StepIds == 0..MaxClock
Step(id, service, action, config) ==
    [id |-> id, service |-> service, action |-> action, config |-> config]

\* Texts the #workflow-name input may hold when Save is clicked, as sequences
\* of characters: what newWorkflow() or editWorkflow() put there, or what the
\* user typed since.
NameTexts == { <<>>, <<" ">>, <<" ", "w", " ">> }

\* String.prototype.trim
RECURSIVE TrimLeft(_)
TrimLeft(s) == IF s # <<>> /\ Head(s) = " " THEN TrimLeft(Tail(s)) ELSE s
RECURSIVE TrimRight(_)
TrimRight(s) ==
    IF s # <<>> /\ s[Len(s)] = " " THEN TrimRight(SubSeq(s, 1, Len(s) - 1)) ELSE s
Trim(s) == TrimRight(TrimLeft(s))

\* The millisecond clock advances.
Tick ==
    /\ now < MaxClock
    /\ now' = now + 1
    /\ last' = Last("tick", "call", NoArg, NoTask, <<>>, <<>>)
    /\ UNCHANGED <<storageVars, sessionVars, editorVars, cacheVars, net, timers>>
    /\ UNCHANGED <<catalogVars, screen>>

\* id: `step_${Date.now()}`
NewStepId == now

\* The validation of addStep: the message of the error toast, "" when the
\* form is accepted.
AddStepError_NoActionCheck(service, action, configText) ==
    IF service = "" THEN "Please select service and action"
    ELSE IF ~JSONParse(configText).ok THEN "Invalid JSON configuration"
    ELSE ""

AddStepError(service, action, configText) ==
    IF service = "" \/ action = "" THEN "Please select service and action"
    ELSE IF ~JSONParse(configText).ok THEN "Invalid JSON configuration"
    ELSE ""

\* addStep(), reading the three fields of the step form
addStep(service, action, configText) ==
    /\ ~crashed
    /\ LET error == AddStepError(service, action, configText)
           form == [service |-> service, action |-> action, configText |-> configText]
       IN  IF error # ""
           THEN /\ currentSteps' = currentSteps
                /\ last' = Last("addStep", "call", [form |-> form, ok |-> FALSE],
                                NoTask, <<>>, <<Toast(error, "error")>>)
           ELSE /\ Len(currentSteps) < MaxSteps
                /\ currentSteps' =
                       Append(currentSteps,
                              Step(NewStepId, service, action, JSONParse(configText).value))
                /\ last' = Last("addStep", "call",
                                [form |-> form, ok |-> TRUE, id |-> NewStepId,
                                 before |-> currentSteps],
                                NoTask, <<>>, <<>>)
    /\ UNCHANGED <<storageVars, sessionVars, currentWorkflow, now, cacheVars, net,
                   timers>>
    /\ UNCHANGED <<catalogVars, screen>>

\* this.currentSteps.filter(s => s.id !== stepId)
FilterSteps_DropsFirst(steps, stepId) ==
    IF steps = <<>> THEN <<>> ELSE Tail(steps)

FilterSteps(steps, stepId) == SelectSeq(steps, LAMBDA s : s.id # stepId)

\* removeStep(stepId)
removeStep(stepId) ==
    /\ ~crashed
    /\ currentSteps' = FilterSteps(currentSteps, stepId)
    /\ last' = Last("removeStep", "call", [stepId |-> stepId, before |-> currentSteps],
                    NoTask, <<>>, <<>>)
    /\ UNCHANGED <<storageVars, sessionVars, currentWorkflow, now,
                   cacheVars, net, timers>>
    /\ UNCHANGED <<catalogVars, screen>>

\* What newWorkflow writes into the #workflow-name, #workflow-trigger and
\* #workflow-status fields of the builder form.
NewWorkflowForm == [name |-> <<>>, trigger |-> "manual", status |-> "draft"]

\* newWorkflow(); showView('builder') loads nothing
newWorkflow_KeepsId ==
    /\ ~crashed
    /\ currentWorkflow' = currentWorkflow
    /\ currentSteps' = <<>>
    /\ last' = Last("newWorkflow", "call", NewWorkflowForm, NoTask, <<>>, <<>>)
    /\ UNCHANGED <<storageVars, sessionVars, now, cacheVars, net, timers>>
    /\ UNCHANGED <<catalogVars, screen>>

newWorkflow ==
    /\ ~crashed
    /\ currentWorkflow' = Null
    /\ currentSteps' = <<>>
    /\ last' = Last("newWorkflow", "call", NewWorkflowForm, NoTask, <<>>, <<>>)
    /\ UNCHANGED <<storageVars, sessionVars, now, cacheVars, net, timers>>
    /\ UNCHANGED <<catalogVars, screen>>

\* editWorkflow(id), to the await
editWorkflow(id) ==
    /\ ~crashed
    /\ Len(net) < MaxTasks
    /\ LET req == request("GET", "/workflows/:id", id)
       IN  /\ net' = Append(net, [op |-> "editWorkflow", id |-> id, req |-> req])
           /\ last' = Last("editWorkflow", "call", [id |-> id], NoTask, <<req>>, <<>>)
    /\ UNCHANGED <<storageVars, sessionVars, editorVars, now, cacheVars, timers>>
    /\ UNCHANGED <<catalogVars, screen>>

\* Steps a stored workflow may carry: they were created at an earlier time.
StoredStep == Step(0, "slack", "send", ConfigEmpty)
StoredStepLists == { Undefined, List(<<>>), List(<<StoredStep>>) }

\* Bodies the remote store may answer GET /workflows/:id with.
WorkflowBodies(id) ==
    { [workflow |-> Undefined] } \cup
    { [workflow |-> [t |-> "object", id |-> id, name |-> <<"w">>, steps |-> s]] :
        s \in StoredStepLists }

\* editWorkflow resumed with the response body.  currentWorkflow is assigned
\* first; reading .steps of an undefined workflow throws into the catch block.
\* (currentWorkflow.steps is not read again, so the draft keeps id and name;
\* `requested` notes the id editWorkflow was called with.)
EditResolve(i, data) ==
    /\ net[i].op = "editWorkflow"
    /\ data \in WorkflowBodies(net[i].id)
    /\ IF data.workflow.t = "undefined"
       THEN /\ currentWorkflow' = Undefined
            /\ UNCHANGED currentSteps
            /\ last' = Last("editWorkflow", "resolve", data, net[i], <<>>,
                            <<Toast(<<"Failed to load workflow: ", "TypeError">>, "error")>>)
       ELSE /\ currentWorkflow' = [t |-> "object", id |-> data.workflow.id,
                                   name |-> data.workflow.name,
                                   requested |-> net[i].id]
            /\ currentSteps' = OrEmpty(data.workflow.steps)
            /\ last' = Last("editWorkflow", "resolve", data, net[i], <<>>, <<>>)
    /\ net' = Remove(net, i)
    /\ UNCHANGED <<storageVars, sessionVars, now, cacheVars, timers>>
    /\ UNCHANGED <<catalogVars, screen>>

\* editWorkflow resumed with the error request() threw
EditReject(i, resp) ==
    /\ net[i].op = "editWorkflow"
    /\ net' = Remove(net, i)
    /\ last' = Last("editWorkflow", "reject", Str(ErrorMessage(resp)), net[i], <<>>,
                    <<Toast(<<"Failed to load workflow: ", ErrorMessage(resp)>>, "error")>>)
    /\ UNCHANGED <<storageVars, sessionVars, editorVars, now, cacheVars, timers>>
    /\ UNCHANGED <<catalogVars, screen>>

\* The create-or-update request of saveWorkflow.
SaveRequest_AlwaysCreate == request("POST", "/workflows", NoId)

SaveRequest ==
    IF Truthy(currentWorkflow)
    THEN request("PUT", "/workflows/:id", currentWorkflow.id)
    ELSE request("POST", "/workflows", NoId)

\* The validation of saveWorkflow: the message of the error toast, "" when
\* the draft may be saved.
SaveError_NoStepCheck(nameText) ==
    IF Trim(nameText) = <<>> THEN "Please enter a workflow name"
    ELSE ""

SaveError(nameText) ==
    IF Trim(nameText) = <<>> THEN "Please enter a workflow name"
    ELSE IF Len(currentSteps) = 0 THEN "Please add at least one step"
    ELSE ""

\* saveWorkflow(andRun), to the first await; nameText is the value of the
\* #workflow-name input.  (`saved` and `draft` note the create or update
\* request and the draft the handler was called on.)
saveWorkflow(andRun, nameText) ==
    /\ ~crashed
    /\ LET error == SaveError(nameText)
           arg == [andRun |-> andRun, nameText |-> nameText]
       IN  IF error # ""
           THEN /\ net' = net
                /\ last' = Last("saveWorkflow", "call", arg, NoTask, <<>>,
                                <<Toast(error, "error")>>)
           ELSE /\ Len(net) < MaxTasks
                /\ net' = Append(net, [op |-> "saveWorkflow", stage |-> "save",
                                       andRun |-> andRun, req |-> SaveRequest,
                                       saved |-> SaveRequest,
                                       draft |-> <<currentWorkflow, currentSteps>>])
                /\ last' = Last("saveWorkflow", "call", arg, NoTask, <<SaveRequest>>, <<>>)
    /\ UNCHANGED <<storageVars, sessionVars, editorVars, now, cacheVars, timers>>
    /\ UNCHANGED <<catalogVars, screen>>

\* Bodies the remote store may answer the create or update request with: the
\* stored workflow under the addressed id (a new id for a create), or none.
SaveBodies(req) ==
    { [workflow |-> Undefined],
      [workflow |-> [t |-> "object", id |-> IF req.method = "PUT" THEN req.id ELSE "N"]] }

SavedToast(req) ==
    IF req.method = "PUT" THEN Toast("Workflow updated successfully", "success")
    ELSE Toast("Workflow created successfully", "success")

\* window.App.loadWorkflows(); window.App.showView('workflows')
\* (showView('workflows') calls loadWorkflows() once more)
AfterSave == <<LoadTask("loadWorkflows"), LoadTask("loadWorkflows")>>

\* saveWorkflow resumed with the body of the create or update response
SaveResolve(i, result) ==
    /\ net[i].op = "saveWorkflow"
    /\ net[i].stage = "save"
    /\ result \in SaveBodies(net[i].req)
    /\ IF net[i].andRun /\ Truthy(result.workflow)
       THEN LET req == request("POST", "/workflows/:id/execute", result.workflow.id)
            IN  /\ net' = Append(Remove(net, i),
                                 [op |-> "saveWorkflow", stage |-> "execute",
                                  andRun |-> TRUE, req |-> req,
                                  saved |-> net[i].saved, draft |-> net[i].draft])
                /\ last' = Last("saveWorkflow", "resolve", result, net[i], <<req>>,
                                <<SavedToast(net[i].req)>>)
       ELSE /\ net' = Remove(net, i) \o AfterSave
            /\ last' = Last("saveWorkflow", "resolve", result, net[i],
                            Requests(AfterSave),
                            <<SavedToast(net[i].req)>>)
    /\ UNCHANGED <<storageVars, sessionVars, editorVars, now, cacheVars, timers>>
    /\ UNCHANGED <<catalogVars, screen>>

\* saveWorkflow resumed with the (ignored) body of the execute response
ExecuteResolve(i) ==
    /\ net[i].op = "saveWorkflow"
    /\ net[i].stage = "execute"
    /\ net' = Remove(net, i) \o AfterSave
    /\ last' = Last("saveWorkflow", "resolve", NoArg, net[i],
                    Requests(AfterSave),
                    <<Toast("Workflow execution started", "success")>>)
    /\ UNCHANGED <<storageVars, sessionVars, editorVars, now, cacheVars, timers>>
    /\ UNCHANGED <<catalogVars, screen>>

\* saveWorkflow resumed, at either await, with the error request() threw
SaveReject(i, resp) ==
    /\ net[i].op = "saveWorkflow"
    /\ net' = Remove(net, i)
    /\ last' = Last("saveWorkflow", "reject", Str(ErrorMessage(resp)), net[i], <<>>,
                    <<Toast(<<"Failed to save workflow: ", ErrorMessage(resp)>>, "error")>>)
    /\ UNCHANGED <<storageVars, sessionVars, editorVars, now, cacheVars, timers>>
    /\ UNCHANGED <<catalogVars, screen>>

\* ------------------------------------------------------------ App.init
\* Bodies the remote store may answer GET /services and GET /api/connectors
\* with; a body may lack the list field.
ServiceLists == { Undefined, List(<<"slack">>) }
ConnectorLists == { Undefined, List(<<"http">>), List(<<"http", "slack">>) }
CatalogParts == {"services", "connectors"}
CatalogBodies(part) == IF part = "services" THEN ServiceLists ELSE ConnectorLists

\* The suspended task of WorkflowBuilder.init(): Promise.all over
\* getServices() and getConnectors().
CatalogTask ==
    [op |-> "init",
     req |-> request("GET", "/services", NoId),
     req2 |-> request("GET", "/api/connectors", NoId),
     services |-> Waiting, connectors |-> Waiting, rejected |-> FALSE]

OtherCatalogPart(part) == IF part = "services" THEN "connectors" ELSE "services"
CatalogPartOf(task, part) == IF part = "services" THEN task.services ELSE task.connectors
WithCatalogPart(task, part, value) ==
    IF part = "services" THEN [task EXCEPT !.services = value]
    ELSE [task EXCEPT !.connectors = value]

\* App.init(), the DOMContentLoaded handler: Auth.init() shows the app and
\* loads the dashboard when a session exists; WorkflowBuilder.init() runs to
\* its Promise.all.  No handler can have started a task before.
AppInit ==
    /\ ~crashed
    /\ builderInit = "none"
    /\ net = <<>>
    /\ LET tasks == (IF isAuthenticated THEN <<DashboardTask>> ELSE <<>>)
                     \o <<CatalogTask>>
       IN  /\ net' = tasks
           /\ last' = Last("init", "call", NoArg, NoTask, Requests(tasks), <<>>)
    /\ builderInit' = "awaiting"
    /\ screen' = (IF isAuthenticated THEN "app" ELSE "auth")
    /\ UNCHANGED <<storageVars, sessionVars, editorVars, now, cacheVars, timers,
                   availableServices, availableConnectors>>

\* What WorkflowBuilder.init commits once both requests are fulfilled.
CatalogCommit(servicesData, connectorsData) ==
    /\ availableServices' = OrEmpty(servicesData)
    /\ availableConnectors' = OrEmpty(connectorsData)

\* one request of WorkflowBuilder.init fulfilled with its response body; after
\* the join init goes on to attach its event listeners
CatalogResolve(i, part, body) ==
    /\ net[i].op = "init"
    /\ CatalogPartOf(net[i], part) = Waiting
    /\ LET other == CatalogPartOf(net[i], OtherCatalogPart(part))
           servicesData == IF part = "services" THEN body ELSE other.body
           connectorsData == IF part = "connectors" THEN body ELSE other.body
       IN  IF net[i].rejected
           THEN /\ net' = Remove(net, i)
                /\ UNCHANGED catalogVars
                /\ last' = Last("init", "dropped", NoArg, NoTask, <<>>, <<>>)
           ELSE IF other = Waiting
           THEN /\ net' = [net EXCEPT ![i] = WithCatalogPart(net[i], part, Fulfilled(body))]
                /\ UNCHANGED catalogVars
                /\ last' = Last("init", "pending", NoArg, NoTask, <<>>, <<>>)
           ELSE /\ net' = Remove(net, i)
                /\ CatalogCommit(servicesData, connectorsData)
                /\ builderInit' = "done"
                /\ last' = Last("init", "resolve",
                                [services |-> servicesData, connectors |-> connectorsData],
                                NoTask, <<>>, <<>>)
    /\ UNCHANGED <<storageVars, sessionVars, editorVars, now, cacheVars, timers, screen>>

\* the catch block of WorkflowBuilder.init: console.error only
CatalogCatch_KeepsServices(part, other) ==
    /\ availableServices' = IF part = "connectors" /\ other # Waiting
                            THEN OrEmpty(other.body) ELSE availableServices
    /\ availableConnectors' = availableConnectors

CatalogCatch(part, other) == UNCHANGED <<availableServices, availableConnectors>>

\* one request of WorkflowBuilder.init failed: Promise.all rejects at the
\* first failure, the catch block runs and init goes on to attach its event
\* listeners
CatalogReject(i, part, resp) ==
    /\ net[i].op = "init"
    /\ CatalogPartOf(net[i], part) = Waiting
    /\ LET other == CatalogPartOf(net[i], OtherCatalogPart(part))
       IN  /\ net' = IF other = Waiting
                     THEN [net EXCEPT ![i] =
                              [WithCatalogPart(net[i], part, Settled) EXCEPT !.rejected = TRUE]]
                     ELSE Remove(net, i)
           /\ IF net[i].rejected
              THEN /\ UNCHANGED catalogVars
                   /\ last' = Last("init", "dropped", NoArg, NoTask, <<>>, <<>>)
              ELSE /\ CatalogCatch(part, other)
                   /\ builderInit' = "done"
                   /\ last' = Last("init", "reject", Str(ErrorMessage(resp)),
                                   net[i], <<>>, <<>>)
    /\ UNCHANGED <<storageVars, sessionVars, editorVars, now, cacheVars, timers, screen>>

\* ------------------------------------------------------------ Auth (auth.js)
HandlerOp(path) == IF path = "/auth/login" THEN "handleLogin" ELSE "handleSignup"
HandlerOps == {"handleLogin", "handleSignup"}
HandlerToast(op) ==
    IF op = "handleLogin" THEN "Login successful!" ELSE "Account created successfully!"

\* The loadDashboard() that showApp() starts, sent with the token tok.
ShowAppTask(tok) ==
    LET key == IF Truthy(tok) THEN tok ELSE NoHeader
    IN  [DashboardTask EXCEPT !.req.key = key, !.req2.key = key]

\* handleLogin() and handleSignup(), to the await of api.login / api.signup
HandleAuthCall(path) ==
    /\ ~crashed
    /\ Len(net) < MaxTasks
    /\ LET req == request("POST", path, NoId)
       IN  /\ net' = Append(net, [op |-> HandlerOp(path), req |-> req])
           /\ last' = Last(HandlerOp(path), "call", NoArg, NoTask, <<req>>, <<>>)
    /\ UNCHANGED <<storageVars, sessionVars, editorVars, now, cacheVars, timers>>
    /\ UNCHANGED <<catalogVars, screen>>

handleLogin == HandleAuthCall("/auth/login")
handleSignup == HandleAuthCall("/auth/signup")

\* handleLogin / handleSignup resumed with the response body: api.login has
\* stored the session when the body carries an api_key, then the toast and
\* showApp(), which loads the dashboard
HandleAuthResolve(i, data) ==
    /\ net[i].op \in HandlerOps
    /\ IF Truthy(data.api_key)
       THEN setAuth(data.api_key, data.user)
       ELSE UNCHANGED <<storageVars, token, user>>
    /\ screen' = "app"
    /\ LET task == ShowAppTask(IF Truthy(data.api_key) THEN data.api_key ELSE token)
       IN  /\ net' = Append(Remove(net, i), task)
           /\ last' = Last(net[i].op, "resolve", data, net[i], Requests(<<task>>),
                           <<Toast(HandlerToast(net[i].op), "success")>>)
    /\ UNCHANGED <<crashed, editorVars, now, cacheVars, timers, catalogVars>>

\* handleLogin / handleSignup resumed with the error request() threw: the
\* catch block shows its message
HandleAuthReject(i, resp) ==
    /\ net[i].op \in HandlerOps
    /\ net' = Remove(net, i)
    /\ last' = Last(net[i].op, "reject", Str(ErrorMessage(resp)), net[i], <<>>,
                    <<Toast(ErrorMessage(resp), "error")>>)
    /\ UNCHANGED <<storageVars, sessionVars, editorVars, now, cacheVars, timers>>
    /\ UNCHANGED <<catalogVars, screen>>

\* handleLogout(): api.logout(), the toast, showAuth() and showLogin()
handleLogout ==
    /\ ~crashed
    /\ token' = Null
    /\ user' = Null
    /\ lsToken' = Null
    /\ lsUser' = Null
    /\ screen' = "auth"
    /\ last' = Last("handleLogout", "call", NoArg, NoTask, <<>>,
                    <<Toast("Logged out successfully", "success")>>)
    /\ UNCHANGED <<crashed, editorVars, now, cacheVars, net, timers, catalogVars>>

\* ------------------------------------------------------------ App.addCredential
\* Values of the #cred-name / #cred-service inputs (as character sequences),
\* the #cred-type select and the #cred-data text.
CredentialTexts == { <<>>, <<" ">>, <<"s">> }
CredentialTypes == {"", "api_key"}
CredentialDataTexts == {"{}", "{oops"}

\* The validation of addCredential: the message of the error toast, "" when
\* the form is accepted.
AddCredentialError_NoTypeCheck(nameText, serviceText, type, dataText) ==
    IF Trim(nameText) = <<>> \/ Trim(serviceText) = <<>>
    THEN "Please fill all required fields"
    ELSE IF ~JSONParse(dataText).ok THEN "Invalid JSON data"
    ELSE ""

AddCredentialError(nameText, serviceText, type, dataText) ==
    IF Trim(nameText) = <<>> \/ Trim(serviceText) = <<>> \/ type = ""
    THEN "Please fill all required fields"
    ELSE IF ~JSONParse(dataText).ok THEN "Invalid JSON data"
    ELSE ""

\* addCredential(), to the await
addCredential(nameText, serviceText, type, dataText) ==
    /\ ~crashed
    /\ LET error == AddCredentialError(nameText, serviceText, type, dataText)
           form == [nameText |-> nameText, serviceText |-> serviceText,
                    type |-> type, dataText |-> dataText]
           req == request("POST", "/credentials", NoId)
       IN  IF error # ""
           THEN /\ net' = net
                /\ last' = Last("addCredential", "call", form, NoTask, <<>>,
                                <<Toast(error, "error")>>)
           ELSE /\ Len(net) < MaxTasks
                /\ net' = Append(net, [op |-> "addCredential", req |-> req])
                /\ last' = Last("addCredential", "call", form, NoTask, <<req>>, <<>>)
    /\ UNCHANGED <<storageVars, sessionVars, editorVars, now, cacheVars, timers>>
    /\ UNCHANGED <<catalogVars, screen>>

\* addCredential resumed with the (ignored) response body:
\* hideCredentialModal(); loadCredentials()
CredentialResolve(i) ==
    /\ net[i].op = "addCredential"
    /\ net' = Append(Remove(net, i), LoadTask("loadCredentials"))
    /\ last' = Last("addCredential", "resolve", NoArg, NoTask,
                    Requests(<<LoadTask("loadCredentials")>>),
                    <<Toast("Credential added successfully", "success")>>)
    /\ UNCHANGED <<storageVars, sessionVars, editorVars, now, cacheVars, timers>>
    /\ UNCHANGED <<catalogVars, screen>>

\* addCredential resumed with the error request() threw
CredentialReject(i, resp) ==
    /\ net[i].op = "addCredential"
    /\ net' = Remove(net, i)
    /\ last' = Last("addCredential", "reject", Str(ErrorMessage(resp)), NoTask, <<>>,
                    <<Toast(<<"Failed to add credential: ", ErrorMessage(resp)>>, "error")>>)
    /\ UNCHANGED <<storageVars, sessionVars, editorVars, now, cacheVars, timers>>
    /\ UNCHANGED <<catalogVars, screen>>

\* ------------------------------------------------------------ specification
Init ==
    /\ lsToken = Null
    /\ lsUser = Null
    /\ token = Null
    /\ user = Null
    /\ crashed = FALSE
    /\ currentWorkflow = Null
    /\ currentSteps = <<>>
    /\ now = 1
    /\ workflows = <<>>
    /\ credentials = <<>>
    /\ executions = <<>>
    /\ templates = <<>>
    /\ net = <<>>
    /\ timers = 0
    /\ availableServices = <<>>
    /\ availableConnectors = <<>>
    /\ builderInit = "none"
    /\ screen = "none"
    /\ last = Last("init", "call", NoArg, NoTask, <<>>, <<>>)

AuthResponse ==
    \E i \in 1..Len(net) :
        \/ \E data \in AuthResponses : AuthResolve(i, data)
        \/ \E resp \in FailureResponses : AuthReject(i, resp)

NextSession ==
    \/ Constructor
    \/ login
    \/ signup
    \/ AuthResponse
    \/ logout

SpecSession == Init /\ [][NextSession]_vars

LoadResponse ==
    \E i \in 1..Len(net) :
        /\ net[i].op \in LoadOps
        /\ \/ \E body \in LoadBodies(net[i].op) : LoadResolve(i, body)
           \/ \E resp \in FailureResponses : LoadReject(i, resp)

EditResponse ==
    \E i \in 1..Len(net) :
        /\ net[i].op = "editWorkflow"
        /\ \/ \E data \in WorkflowBodies(net[i].id) : EditResolve(i, data)
           \/ \E resp \in FailureResponses : EditReject(i, resp)

SaveResponse ==
    \E i \in 1..Len(net) :
        /\ net[i].op = "saveWorkflow"
        /\ \/ \E result \in SaveBodies(net[i].req) : SaveResolve(i, result)
           \/ ExecuteResolve(i)
           \/ \E resp \in FailureResponses : SaveReject(i, resp)

DashboardResponse ==
    \E i \in 1..Len(net) : \E part \in DashboardParts :
        /\ net[i].op = "loadDashboard"
        /\ \/ \E body \in DashboardBodies(part) : DashboardResolve(i, part, body)
           \/ \E resp \in FailureResponses : DashboardReject(i, part, resp)

DeleteResponse ==
    \E i \in 1..Len(net) :
        \/ DeleteResolve(i)
        \/ \E resp \in FailureResponses : DeleteReject(i, resp)

\* The views and the loads they start.
NextLoad ==
    \/ \E viewName \in ViewNames : showView(viewName)
    \/ LoadResponse
    \/ DashboardResponse

SpecLoad == Init /\ [][NextLoad]_vars

\* The delete actions and the reloads they start.
NextDelete ==
    \/ \E id \in WorkflowIds : \E confirmed \in BOOLEAN : deleteWorkflow(id, confirmed)
    \/ \E id \in CredentialIds : \E confirmed \in BOOLEAN : deleteCredential(id, confirmed)
    \/ DeleteResponse
    \/ LoadResponse
    \/ DashboardResponse

SpecDelete == Init /\ [][NextDelete]_vars

\* The draft and its step operations.
NextDraft ==
    \/ Tick
    \/ \E service \in Services \cup {""} : \E action \in Actions \cup {""} :
          \E configText \in ConfigTexts : addStep(service, action, configText)
    \/ \E stepId \in StepIds : removeStep(stepId)
    \/ newWorkflow
    \/ \E id \in WorkflowIds : editWorkflow(id)
    \/ EditResponse

SpecDraft == Init /\ [][NextDraft]_vars

\* Filling a draft and saving it.  (SpecDraft explores the step form's
\* rejected inputs; here addStep only fills the draft.)
NextSave ==
    \/ \E service \in Services : \E action \in Actions : addStep(service, action, "{}")
    \/ newWorkflow
    \/ \E id \in WorkflowIds : editWorkflow(id)
    \/ EditResponse
    \/ \E andRun \in BOOLEAN : \E nameText \in NameTexts : saveWorkflow(andRun, nameText)
    \/ SaveResponse
    \/ LoadResponse

SpecSave == Init /\ [][NextSave]_vars

\* The dashboard and its statistics.  getRuns(null, 10) asks for at most
\* DashboardLimit runs: the samples are, for every size up to that and every
\* number of successes, one list with the other statuses mixed in.
DashboardLimit == 10

RunSample(n, s) ==
    List([i \in 1..n |->
            Run(i, IF i > n - s THEN "success"
                   ELSE IF i % 2 = 0 THEN "failed" ELSE "running")])

RunSamples == { Undefined } \cup
              { RunSample(n, s) : n \in 0..DashboardLimit, s \in 0..DashboardLimit }

StatsResponse ==
    \E i \in 1..Len(net) :
        \/ \E body \in WorkflowLists : DashboardResolve(i, "workflows", body)
        \/ \E body \in RunSamples : DashboardResolve(i, "runs", body)
        \/ \E part \in DashboardParts : \E resp \in FailureResponses :
              DashboardReject(i, part, resp)

\* One dashboard load at a time.
NextStats ==
    \/ (net = <<>> /\ showView("dashboard"))
    \/ StatsResponse

SpecStats == Init /\ [][NextStats]_vars

\* The session and the requests issued under it.
NextGateway ==
    \/ Constructor
    \/ login
    \/ AuthResponse
    \/ logout
    \/ \E viewName \in {"workflows", "credentials"} : showView(viewName)
    \/ LoadResponse

SpecGateway == Init /\ [][NextGateway]_vars

RunResponse ==
    \E i \in 1..Len(net) :
        \/ RunResolve(i)
        \/ \E resp \in FailureResponses : RunReject(i, resp)

\* Running workflows from the list and the refresh that follows.
NextRun ==
    \/ \E id \in WorkflowIds : runWorkflow(id)
    \/ RunResponse
    \/ TimerFires
    \/ LoadResponse

SpecRun == Init /\ [][NextRun]_vars

CredentialResponse ==
    \E i \in 1..Len(net) :
        \/ CredentialResolve(i)
        \/ \E resp \in FailureResponses : CredentialReject(i, resp)

\* The credential form and the credentials list.
NextCredential ==
    \/ \E nameText \in CredentialTexts : \E serviceText \in CredentialTexts :
          \E type \in CredentialTypes : \E dataText \in CredentialDataTexts :
             addCredential(nameText, serviceText, type, dataText)
    \/ CredentialResponse
    \/ showView("credentials")
    \/ LoadResponse

SpecCredential == Init /\ [][NextCredential]_vars

CatalogResponse ==
    \E i \in 1..Len(net) : \E part \in CatalogParts :
        /\ net[i].op = "init"
        /\ \/ \E body \in CatalogBodies(part) : CatalogResolve(i, part, body)
           \/ \E resp \in FailureResponses : CatalogReject(i, part, resp)

\* Page loads, start-up and the session.
NextCatalog ==
    \/ Constructor
    \/ AppInit
    \/ CatalogResponse
    \/ DashboardResponse
    \/ login
    \/ AuthResponse

SpecCatalog == Init /\ [][NextCatalog]_vars

HandleAuthResponse ==
    \E i \in 1..Len(net) :
        \/ \E data \in AuthResponses : HandleAuthResolve(i, data)
        \/ \E resp \in FailureResponses : HandleAuthReject(i, resp)

\* The screens: the forms of #auth-container and the links and buttons of
\* #app-container are used while their container is displayed.
NextAuth ==
    \/ Constructor
    \/ AppInit
    \/ CatalogResponse
    \/ screen = "auth" /\ handleLogin
    \/ screen = "auth" /\ handleSignup
    \/ HandleAuthResponse
    \/ screen = "app" /\ handleLogout
    \/ DashboardResponse

SpecAuth == Init /\ [][NextAuth]_vars

\* Leaving the app while loads, runs and refresh timers are pending; every
\* login is answered with a session, and the catalog requests of start-up
\* stay unanswered.
LogoutViews == {"executions"}
LogoutRuns == {"A"}
LogoutResponses == [api_key : {Str("tok1")}, user : {UserA}]

NextLogout ==
    \/ AppInit
    \/ screen = "auth" /\ handleLogin
    \/ \E i \in 1..Len(net) : \E data \in LogoutResponses : HandleAuthResolve(i, data)
    \/ screen = "app" /\ handleLogout
    \/ screen = "app" /\ \E viewName \in LogoutViews : showView(viewName)
    \/ LoadResponse
    \/ DashboardResponse
    \/ screen = "app" /\ \E id \in LogoutRuns : runWorkflow(id)
    \/ RunResponse
    \/ TimerFires

SpecLogout == Init /\ [][NextLogout]_vars

\* ================================================================== claims
NoDuplicateIds(steps) ==
    \A i, j \in 1..Len(steps) : i # j => steps[i].id # steps[j].id

\* C1: addStep with a valid form followed at once by removeStep on the id of
\* the step just added leaves the step list as it was before the pair, also
\* when an earlier step was added in the same clock tick.
C1_AddThenRemoveRestores ==
    [][(/\ last.op = "addStep" /\ last.arg.ok
        /\ last'.op = "removeStep" /\ last'.arg.stepId = last.arg.id)
       => currentSteps' = last.arg.before]_vars

\* C2: no two steps of the draft's step list carry the same id.
C2_StepIdsUnique == NoDuplicateIds(currentSteps)

\* C3: saveWorkflow with an empty step list or a name that trims to nothing
\* issues no request and leaves the draft unchanged, for both andRun values.
C3_InvalidSaveSendsNothing ==
    [][(/\ last'.op = "saveWorkflow" /\ last'.phase = "call"
        /\ (Len(currentSteps) = 0 \/ Trim(last'.arg.nameText) = <<>>))
       => (/\ net' = net
           /\ last'.sent = <<>>
           /\ last'.toast # <<>>
           /\ UNCHANGED editorVars)]_vars

C3_Witness ==
    /\ last.op = "saveWorkflow" /\ last.phase = "call"
    /\ last.arg.andRun
    /\ Trim(last.arg.nameText) # <<>>
    /\ Len(currentSteps) = 0
    /\ Truthy(currentWorkflow)
    /\ last.sent = <<>>

\* C4: a valid save of a draft without remote id (newWorkflow) issues exactly
\* one create call and no update call; a valid save of a draft loaded by a
\* successful editWorkflow(id) issues exactly one update call addressed to id
\* and no create call.
C4_SaveCreatesOrUpdates ==
    [][(/\ last'.op = "saveWorkflow" /\ last'.phase = "call"
        /\ Len(currentSteps) > 0 /\ Trim(last'.arg.nameText) # <<>>
        /\ currentWorkflow # Undefined)
       => LET expected ==
                  IF currentWorkflow = Null
                  THEN [method |-> "POST", path |-> "/workflows", id |-> NoId]
                  ELSE [method |-> "PUT", path |-> "/workflows/:id",
                        id |-> currentWorkflow.requested]
              same(req) == /\ req.method = expected.method
                           /\ req.path = expected.path
                           /\ req.id = expected.id
          IN  /\ Len(last'.sent) = 1
              /\ same(last'.sent[1])
              /\ Len(net') = Len(net) + 1
              /\ SubSeq(net', 1, Len(net)) = net
              /\ same(net'[Len(net')].req)]_vars

C4_Witness ==
    /\ last.op = "saveWorkflow" /\ last.phase = "call"
    /\ Len(last.sent) = 1
    /\ last.sent[1].method = "PUT"
    /\ last.sent[1].id = "B"
    /\ Truthy(currentWorkflow)
    /\ currentWorkflow.requested = "B"

\* C5: after a login or signup whose response carries a credential and a
\* profile, isAuthenticated() is true and an APIClient constructed over the
\* same localStorage holds the same credential and the same profile.
C5_LoginSurvivesReload ==
    (/\ last.op \in {"login", "signup"} /\ last.phase = "resolve"
     /\ Truthy(last.arg.api_key) /\ last.arg.user.t = "object")
    => (/\ isAuthenticated
        /\ token = last.arg.api_key
        /\ user = last.arg.user
        /\ ~CtorThrows
        /\ CtorToken = token
        /\ CtorUser = user)

C5_Witness ==
    /\ last.op = "login" /\ last.phase = "resolve"
    /\ last.arg.api_key = Str("tok2") /\ last.arg.user = UserB
    /\ CtorToken = Str("tok2") /\ CtorUser = UserB

\* C6: logout() leaves isAuthenticated() false, the in-memory credential and
\* profile null and localStorage without either entry, and issues no request.
C6_LogoutClearsSession ==
    [][last'.op = "logout"
       => (/\ ~isAuthenticated'
           /\ token' = Null /\ user' = Null
           /\ lsToken' = Null /\ lsUser' = Null
           /\ last'.sent = <<>>
           /\ net' = net)]_vars

C6_Witness ==
    /\ last.op = "logout"
    /\ net # <<>>
    /\ lsToken = Null /\ lsUser = Null

\* C7: constructing the APIClient from localStorage never fails: with a
\* malformed 'user' entry construction completes with a null profile.
C7_ConstructionNeverFails ==
    last.op = "constructor" => (~crashed /\ (CtorThrows => user = Null))

\* C8: addStep with an empty service, an empty action or a config text that
\* does not parse leaves the step list unchanged and shows an error toast.
C8_AddStepRejects ==
    [][(/\ last'.op = "addStep"
        /\ (\/ last'.arg.form.service = ""
            \/ last'.arg.form.action = ""
            \/ ~JSONParse(last'.arg.form.configText).ok))
       => (/\ currentSteps' = currentSteps
           /\ ~last'.arg.ok
           /\ Len(last'.toast) = 1
           /\ last'.toast[1].type = "error")]_vars

C8_Witness ==
    /\ last.op = "addStep"
    /\ last.arg.form = [service |-> "slack", action |-> "send", configText |-> "{oops"]
    /\ ~last.arg.ok
    /\ Len(currentSteps) = 1

\* C9 (as claimed): when a load's request fails the cache holds the value it
\* held when that load was issued.
C9_FailedLoadRestoresIssueValue ==
    [][\A op \in LoadOps :
          (last'.op = op /\ last'.phase = "reject")
          => Cache(op)' = last'.task.before]_vars

\* Why a cache changed, if it did: `op` resumed with a response body whose
\* list the cache now holds.
Loaded(op, field, old, new) ==
    new # old =>
        \/ /\ last'.op = op /\ last'.phase = "resolve"
           /\ new = OrEmpty(last'.arg)
        \/ /\ field # "none"
           /\ last'.op = "loadDashboard" /\ last'.phase = "resolve"
           /\ new = OrEmpty(IF field = "workflows" THEN last'.arg.workflows
                            ELSE last'.arg.runs)

\* C9 (amended): a failed load writes no cache: each cache is after the
\* failure what it was just before the failure was handled; and a cache only
\* ever changes to the list of a successful load's response.
C9_FailedLoadKeepsCache ==
    [][/\ (last'.phase = "reject" /\ last'.op \in LoadOps \cup {"loadDashboard"})
          => UNCHANGED cacheVars
       /\ Loaded("loadWorkflows", "workflows", workflows, workflows')
       /\ Loaded("loadExecutions", "runs", executions, executions')
       /\ Loaded("loadCredentials", "none", credentials, credentials')
       /\ Loaded("loadTemplates", "none", templates, templates')]_vars

C9_Witness ==
    /\ last.op = "loadWorkflows" /\ last.phase = "reject"
    /\ workflows # <<>>
    /\ workflows # last.task.before

\* The delete calls in flight among the tasks.
DeleteCallsIn(tasks) ==
    Cardinality({k \in 1..Len(tasks) : tasks[k].req.method = "DELETE"})

\* C10: deleteCredential(id) and deleteWorkflow(id) issue the delete call only
\* after the user confirmed; when confirmation is withheld no delete call and
\* no reload is issued and the caches are unchanged.
C10_DeleteNeedsConfirmation ==
    [][/\ (last'.op \in DeleteOps /\ last'.phase = "call" /\ ~last'.arg.confirmed)
          => (net' = net /\ last'.sent = <<>> /\ UNCHANGED cacheVars)
       /\ \A k \in 1..Len(last'.sent) :
             last'.sent[k].method = "DELETE"
             => (last'.op \in DeleteOps /\ last'.phase = "call" /\ last'.arg.confirmed)
       /\ DeleteCallsIn(net') > DeleteCallsIn(net)
             => (last'.op \in DeleteOps /\ last'.phase = "call" /\ last'.arg.confirmed)]_vars

C10_Witness ==
    /\ last.op = "deleteCredential" /\ last.phase = "call"
    /\ ~last.arg.confirmed
    /\ credentials # <<>>
    /\ net # <<>>

\* The successful runs of the executions cache, counted one by one.
Successes == Cardinality({k \in 1..Len(executions) : executions[k].status = "success"})

\* C11: the success rate the dashboard shows is the integer nearest to
\* successes / sample size x 100 (a half rounding up), lies in 0..100, and is
\* 0 for an empty sample; 7 successes out of 10 give 70.
C11_SuccessRateRounded ==
    (last.op = "loadDashboard" /\ last.phase = "resolve")
    => LET rate == last.arg.stats.successRate
           n == Len(executions)
       IN  /\ executions = OrEmpty(last.arg.runs)
           /\ rate \in 0..100
           /\ n = 0 => rate = 0
           /\ n > 0 => /\ 2 * (rate * n - 100 * Successes) <= n
                       /\ 2 * (100 * Successes - rate * n) < n
           /\ (n = 10 /\ Successes = 7) => rate = 70

C11_Witness ==
    /\ last.op = "loadDashboard" /\ last.phase = "resolve"
    /\ Len(executions) = 10 /\ Successes = 7
    /\ last.arg.stats.successRate = 70

\* C12: in saveWorkflow(true) the execute call is issued only when the create
\* or update call has succeeded and is addressed to the id of the saved
\* workflow; when the execute call fails the failure is reported as an execute
\* failure, not as a failed save, and the workflows reload of a successful
\* save still happens.
C12_ExecuteFailureKeepsSave ==
    [][/\ \A k \in 1..Len(last'.sent) :
             last'.sent[k].path = "/workflows/:id/execute"
             => (/\ last'.op = "saveWorkflow" /\ last'.phase = "resolve"
                 /\ last'.task.stage = "save" /\ last'.task.andRun
                 /\ last'.sent[k].id = last'.arg.workflow.id)
       /\ (/\ last'.op = "saveWorkflow" /\ last'.phase = "reject"
           /\ last'.task.stage = "execute")
          => (/\ \E k \in 1..Len(last'.sent) :
                    last'.sent[k].method = "GET" /\ last'.sent[k].path = "/workflows"
              /\ \A k \in 1..Len(last'.toast) :
                    last'.toast[k].message[1] # "Failed to save workflow: ")]_vars

\* C13: when the request of login or signup fails, the error request() threw
\* reaches the caller as it is, and the in-memory credential and profile and
\* both localStorage entries keep their values.
C13_FailedLoginKeepsSession ==
    [][(last'.op \in {"login", "signup"} /\ last'.phase = "reject")
       => (/\ UNCHANGED <<token, user, lsToken, lsUser>>
           /\ \E resp \in FailureResponses : last'.arg = Str(ErrorMessage(resp))
           /\ last'.toast = <<>>
           /\ last'.sent = <<>>)]_vars

C13_Witness ==
    /\ last.op = "login" /\ last.phase = "reject"
    /\ last.arg = Str("denied")
    /\ token = Str("tok1") /\ user = UserA
    /\ lsToken = Str("tok1") /\ lsUser # Null

\* C14: every request is issued with the X-API-Key header exactly when the
\* session holds a credential at that moment, and the header is that
\* credential: none after logout, never missing while authenticated.
C14_HeaderFollowsSession ==
    [][\A k \in 1..Len(last'.sent) :
          /\ token' = token
          /\ isAuthenticated => last'.sent[k].key = token
          /\ ~isAuthenticated => last'.sent[k].key = NoHeader]_vars

C14_Witness ==
    /\ last.op = "showView"
    /\ Len(last.sent) = 1 /\ last.sent[1].key = NoHeader
    /\ Len(net) = 2 /\ net[1].req.key = Str("tok1")
    /\ lsToken = Null

\* The requests of `sent` with this method and path.
Sent(sent, method, path) ==
    {k \in 1..Len(sent) : sent[k].method = method /\ sent[k].path = path}

\* C15: a successful delete, of a workflow or of a credential, reloads the
\* owning list and the dashboard; a failed delete call issues neither reload
\* and leaves the caches unchanged.
C15_DeleteReloadsListAndDashboard ==
    [][/\ (last'.op \in DeleteOps /\ last'.phase = "resolve")
          => (/\ Sent(last'.sent, "GET",
                      IF last'.op = "deleteWorkflow" THEN "/workflows"
                      ELSE "/credentials") # {}
              /\ Sent(last'.sent, "GET", "/runs?limit=10") # {}
              /\ \E k \in 1..Len(net') : net'[k].op = "loadDashboard")
       /\ (last'.op \in DeleteOps /\ last'.phase = "reject")
          => (last'.sent = <<>> /\ Len(net') < Len(net) /\ UNCHANGED cacheVars)]_vars

\* C16: runWorkflow(id) schedules exactly one delayed refresh of the runs
\* cache when the execute call has succeeded and none when it has failed; the
\* refresh request is issued by the timer only, so never before the execute
\* response has arrived.
C16_RunSchedulesOneRefresh ==
    [][/\ (last'.op = "runWorkflow" /\ last'.phase = "resolve")
          => (timers' = timers + 1 /\ last'.sent = <<>>)
       /\ (last'.op = "runWorkflow" /\ last'.phase \in {"call", "reject"})
          => (timers' = timers
              /\ Sent(last'.sent, "GET", "/runs?limit=100") = {})
       /\ timers' > timers
          => (last'.op = "runWorkflow" /\ last'.phase = "resolve")
       /\ Sent(last'.sent, "GET", "/runs?limit=100") # {}
          => (/\ last'.op = "timer" /\ timers' = timers - 1
              /\ Len(last'.sent) = 1)]_vars

C16_Witness ==
    /\ last.op = "timer"
    /\ timers = 1
    /\ Len(net) = 1 /\ net[1].op = "loadExecutions"

\* C17: addCredential issues no request when the trimmed name or service or
\* the type is empty or when the data text does not parse, and leaves the
\* credentials cache unchanged; the create call is issued only by a
\* submission that passes these checks.
C17_InvalidCredentialSendsNothing ==
    [][LET form == last'.arg
           submitted == last'.op = "addCredential" /\ last'.phase = "call"
           invalid == \/ Trim(form.nameText) = <<>>
                      \/ Trim(form.serviceText) = <<>>
                      \/ form.type = ""
                      \/ ~JSONParse(form.dataText).ok
       IN  /\ (submitted /\ invalid)
              => (/\ net' = net /\ last'.sent = <<>>
                  /\ credentials' = credentials
                  /\ Len(last'.toast) = 1 /\ last'.toast[1].type = "error")
           /\ Sent(last'.sent, "POST", "/credentials") # {}
              => (submitted /\ ~invalid /\ Len(last'.sent) = 1)]_vars

C17_Witness ==
    /\ last.op = "addCredential" /\ last.phase = "call"
    /\ last.arg = [nameText |-> <<"s">>, serviceText |-> <<"s">>,
                   type |-> "api_key", dataText |-> "{oops"]
    /\ last.sent = <<>>
    /\ credentials # <<>>

\* C18: when the services fetch or the connectors fetch of
\* WorkflowBuilder.init fails, neither availableServices nor
\* availableConnectors is modified (both are still empty), the error is not
\* raised further, and init goes on to attach its event listeners.
C18_CatalogAllOrNothing ==
    [][/\ (last'.op = "init" /\ last'.phase = "reject")
          => (/\ UNCHANGED <<availableServices, availableConnectors>>
              /\ availableServices' = <<>> /\ availableConnectors' = <<>>
              /\ builderInit' = "done"
              /\ ~crashed'
              /\ last'.toast = <<>>)
       /\ (last'.op = "init" /\ last'.phase = "dropped")
          => UNCHANGED catalogVars
       /\ (availableServices' # availableServices
           \/ availableConnectors' # availableConnectors)
          => \/ last'.op = "constructor"
             \/ (/\ last'.op = "init" /\ last'.phase = "resolve"
                 /\ availableServices' = OrEmpty(last'.arg.services)
                 /\ availableConnectors' = OrEmpty(last'.arg.connectors))]_vars

C18_Witness ==
    /\ last.op = "init" /\ last.phase = "reject"
    /\ last.task.services = Fulfilled(List(<<"slack">>))
    /\ availableServices = <<>> /\ availableConnectors = <<>>
    /\ builderInit = "done"

\* C19: newWorkflow leaves, whatever the draft was, a draft without remote id
\* and without steps and a form with trigger "manual" and status "draft"; the
\* step operations and a save keep the draft without remote id, and a valid
\* save of a draft without remote id issues a create call and no update call.
C19_NewWorkflowResets ==
    [][/\ last'.op = "newWorkflow"
          => (/\ currentWorkflow' = Null
              /\ currentSteps' = <<>>
              /\ last'.arg.trigger = "manual" /\ last'.arg.status = "draft"
              /\ last'.sent = <<>> /\ net' = net)
       /\ (currentWorkflow = Null /\ last'.op \in {"addStep", "saveWorkflow"})
          => currentWorkflow' = Null
       /\ (/\ currentWorkflow = Null
           /\ last'.op = "saveWorkflow" /\ last'.phase = "call"
           /\ Len(currentSteps) > 0 /\ Trim(last'.arg.nameText) # <<>>)
          => (/\ Sent(last'.sent, "POST", "/workflows") = {1}
              /\ Len(last'.sent) = 1)]_vars

C19_Witness ==
    /\ last.op = "newWorkflow"
    /\ currentWorkflow = Null /\ currentSteps = <<>>
    /\ \E k \in 1..Len(net) :
          net[k].op = "saveWorkflow" /\ net[k].req.method = "PUT"

\* The steps of a list that do not carry this id, one by one in their order.
RECURSIVE Without(_, _)
Without(steps, stepId) ==
    IF steps = <<>> THEN <<>>
    ELSE IF Head(steps).id = stepId THEN Without(Tail(steps), stepId)
    ELSE <<Head(steps)>> \o Without(Tail(steps), stepId)

C21_EditSetsAndKeepsId ==
    [][/\ (/\ last'.op = "editWorkflow" /\ last'.phase = "resolve"
           /\ last'.toast = <<>>)
          => (/\ currentWorkflow'.id = last'.arg.workflow.id
              /\ currentSteps' = OrEmpty(last'.arg.workflow.steps))
       /\ last'.op \in {"addStep", "removeStep"}
          => currentWorkflow' = currentWorkflow
       /\ (/\ last'.op = "editWorkflow" /\ last'.phase \in {"resolve", "reject"}
           /\ last'.toast # <<>>)
          => UNCHANGED editorVars]_vars

\* C22: loadDashboard commits nothing on partial failure: when the workflows
\* request or the runs request fails, neither the workflows cache nor the
\* executions cache is written, whichever response arrives first; it writes
\* the two caches only together, once both requests are fulfilled.
C22_DashboardCommitsNothingOnFailure ==
    [][last'.op = "loadDashboard"
       => /\ last'.phase \in {"reject", "dropped", "pending"}
             => UNCHANGED cacheVars
          /\ last'.phase = "resolve"
             => (/\ workflows' = OrEmpty(last'.arg.workflows)
                 /\ executions' = OrEmpty(last'.arg.runs))
          /\ last'.phase \in {"reject", "dropped", "pending", "resolve"}]_vars

C22_Witness ==
    /\ last.op = "loadDashboard" /\ last.phase = "reject"
    /\ last.task.workflows = Fulfilled(List(<<Workflow("A", "active")>>))
    /\ workflows = <<>>
    /\ executions # <<>>

\* C23: no two invocations of the same user action overlap: never are two
\* tasks of saveWorkflow (or of runWorkflow, deleteWorkflow, addCredential)
\* suspended at the same time.
C23_NoOverlappingHandlers ==
    \A j, k \in 1..Len(net) :
        (j # k /\ net[j].op = net[k].op)
        => net[j].op \notin {"saveWorkflow", "runWorkflow", "deleteWorkflow",
                             "addCredential"}

\* C24: a load is never cancelled: selecting a view removes no task, a task
\* leaves only when its response is handled, and a load that is answered
\* writes its cache with that response, also when a load of the same list
\* issued later was answered before it; the cache then holds the snapshot
\* that arrived last.
C24_LoadsAreNeverCancelled ==
    [][/\ last'.op = "showView"
          => (Len(net') >= Len(net) /\ SubSeq(net', 1, Len(net)) = net)
       /\ Len(net') < Len(net)
          => last'.phase \in {"resolve", "reject", "dropped"}
       /\ \A op \in LoadOps :
             (last'.op = op /\ last'.phase = "resolve")
             => Cache(op)' = OrEmpty(last'.arg)]_vars

C24_Witness ==
    /\ last.op = "loadWorkflows" /\ last.phase = "resolve"
    /\ last.task.overtaken
    /\ net = <<>>
    /\ workflows = <<Workflow("A", "active")>>
    /\ last.arg = List(<<Workflow("A", "active")>>)

\* C25: localStorage holds the api_key entry and the user entry together or
\* neither of them, whatever logins, signups and logouts succeeded or failed:
\* a login or signup that stores a credential stores the profile entry with
\* it, and logout removes both.
C25_EntriesStoredTogether ==
    (lsToken = Null) <=> (lsUser = Null)

C25_Witness ==
    /\ last.op \in {"login", "signup"} /\ last.phase = "resolve"
    /\ last.arg.user = Undefined
    /\ lsToken = last.arg.api_key
    /\ lsUser # Null

\* C26: the in-memory session agrees with localStorage: the token is
\* non-null exactly when the api_key entry is stored, then equals it, and
\* isAuthenticated() is true exactly in that case.
C26_SessionAgreesWithStorage ==
    /\ (token # Null) <=> (lsToken # Null)
    /\ token # Null => token = lsToken
    /\ isAuthenticated <=> (lsToken # Null)

\* C27: the app container is displayed only while the session is
\* authenticated, whether showApp() ran at init or after handleLogin /
\* handleSignup, also when the response carried no api_key.
C27_AppShownOnlyWhenAuthenticated ==
    screen = "app" => isAuthenticated

\* C30: while the auth screen is displayed and no session exists, as after
\* logout and until the next successful login, no list cache is written:
\* the loads that were in flight at logout and the refresh a run scheduled
\* commit nothing.
C30_NoCacheWriteAfterLogout ==
    [][(screen = "auth" /\ ~isAuthenticated) => UNCHANGED cacheVars]_vars

\* C28: the draft follows the editor operation requested last: a response
\* to editWorkflow(A) that arrives right after newWorkflow(), or right after
\* editWorkflow(B) was called for another workflow, and that carries a
\* workflow, leaves the draft as that operation left it.
C28_LateEditResponseIgnored ==
    [][(/\ last'.op = "editWorkflow" /\ last'.phase = "resolve"
        /\ last'.toast = <<>>
        /\ \/ last.op = "newWorkflow"
           \/ /\ last.op = "editWorkflow" /\ last.phase = "call"
              /\ last.arg.id # last'.task.id)
       => UNCHANGED editorVars]_vars

\* C29: a draft without a remote id is created at most once: when
\* saveWorkflow(true) has created it and the execute call then failed, the
\* next save of the unchanged draft sends no second POST /workflows.
C29_RetryDoesNotCreateAgain ==
    [][(/\ last.op = "saveWorkflow" /\ last.phase = "reject"
        /\ last.task.stage = "execute"
        /\ last.task.saved.method = "POST"
        /\ last.task.draft = <<currentWorkflow, currentSteps>>
        /\ last'.op = "saveWorkflow" /\ last'.phase = "call")
       => \A k \in 1..Len(last'.sent) :
             ~(last'.sent[k].method = "POST" /\ last'.sent[k].path = "/workflows")]_vars

====
